---- MODULE Spec2Model ----
(***************************************************************************)
(* PyGeodesy, module pygeodesy.utmups: the UTM/UPS range tables, the       *)
(* validator (utmupsValidate, utmupsValidateOK), the zone/band classifier  *)
(* (utmupsZoneBand5) and the parse facade (parseUTMUPS5).                  *)
(*                                                                         *)
(* Every operation is a pure function of its arguments.  The state machine *)
(* is a caller that invokes one operation with arguments drawn from small  *)
(* sets (pc = "idle" -> "done") and keeps what came back (ret) and the     *)
(* collaborator calls the operation made, in order (calls).                *)
(*                                                                         *)
(* Eastings and northings are whole metres.  A value that float() cannot   *)
(* convert is NonNum.  Latitudes and longitudes are whole degrees.         *)
(***************************************************************************)
EXTENDS Integers, Sequences, FiniteSets, TLC

VARIABLES pc, op, arg, ret, calls

vars == <<pc, op, arg, ret, calls>>

(* How far beyond each boundary (of a range table, of the zone range, of   *)
(* the latitude bands) the drawn inputs reach.                             *)
Slack == 1

---------------------------------------------------------------------------
(* Values *)

Num(v) == [num |-> TRUE, v |-> v]

NonNum == [num |-> FALSE, v |-> 0]

(* What an operation hands back: a returned value or a raised error.  cls  *)
(* is the class of the error (or of the value), val the value (or the      *)
(* value the error carries), name the argument the error names, U the grid *)
(* the message names, [lo, hi] the range it names, txt the rest of the     *)
(* message.                                                                *)
Result(out, cls, val, name, txt, U, lo, hi) ==
    [out |-> out, cls |-> cls, val |-> val, name |-> name, txt |-> txt,
     U |-> U, lo |-> lo, hi |-> hi]

Return(cls, val) == Result("return", cls, val, "", "", "", 0, 0)

Raise(cls, val, name, txt) == Result("raise", cls, val, name, txt, "", 0, 0)

NoResult == Result("none", "", <<>>, "", "", "", 0, 0)

---------------------------------------------------------------------------
(* pygeodesy.utmupsBase, pygeodesy.utm, pygeodesy.ups, pygeodesy.interns:  *)
(* imported by utmups.py, not part of the sources at hand.                 *)

_MGRS_TILE == 100000

_UPS_ZONE == 0

_UTMUPS_ZONE_MIN == _UPS_ZONE

_UTMUPS_ZONE_MAX == 60

(* 'NS'.find(h): the 0-based position of h, -1 when absent. *)
_NS_find(h) == IF h = "N" THEN 0 ELSE IF h = "S" THEN 1 ELSE -1

(* ups._Bands and utm._Bands: 'A'|'B'|'Y'|'Z' and 'C'|'D'..'W'|'X'. *)
ups_Bands == {"A", "B", "Y", "Z"}

utm_Bands == {"C", "D", "E", "F", "G", "H", "J", "K", "L", "M",
              "N", "P", "Q", "R", "S", "T", "U", "V", "W", "X"}

(* _to3zBhp(zone, band, hemipole=hemi): the zone as a number, the band and *)
(* the hemisphere/pole letter.  A zone that is no number cannot be         *)
(* normalized: the failure is of _to3zBhp's own default error class, since *)
(* the call passes no Error.                                               *)
_to3zBhp(zone, band, hemi) ==
    IF zone.num
    THEN [raised |-> FALSE, cls |-> "", z |-> zone.v, B |-> band, h |-> hemi]
    ELSE [raised |-> TRUE, cls |-> "_ValueError", z |-> 0, B |-> band, h |-> hemi]

---------------------------------------------------------------------------
(* Range tables *)

_UPS_N_MAX == 27 * _MGRS_TILE

_UPS_N_MIN == 13 * _MGRS_TILE

_UPS_S_MAX == 32 * _MGRS_TILE

_UPS_S_MIN == 8 * _MGRS_TILE

_UTM_C_MAX == 9 * _MGRS_TILE

_UTM_C_MIN == 1 * _MGRS_TILE

_UTM_N_MAX == 95 * _MGRS_TILE

_UTM_N_MIN == 0 * _MGRS_TILE

_UTM_S_MAX == 100 * _MGRS_TILE

_UTM_S_MIN == 10 * _MGRS_TILE

(* The shift taken from the South minimum instead of the South maximum. *)
_UTM_N_SHIFT_fromMin == _UTM_S_MIN - _UTM_N_MIN

(* The shift of 100-(-5) tiles. *)
_UTM_N_SHIFT_105 == _UTM_S_MAX - (0 - 5 * _MGRS_TILE)

_UTM_N_SHIFT == _UTM_S_MAX - _UTM_N_MIN

(* A pair indexed as Python indexes it: 0 North, 1 South. *)
Pair(north, south) == (0 :> north) @@ (1 :> south)

_UpsMinMax ==
    [eMax |-> Pair(_UPS_N_MAX, _UPS_S_MAX),
     eMin |-> Pair(_UPS_N_MIN, _UPS_S_MIN),
     nMax |-> Pair(_UPS_N_MAX, _UPS_S_MAX),
     nMin |-> Pair(_UPS_N_MIN, _UPS_S_MIN)]

_UtmMinMax ==
    [eMax |-> Pair(_UTM_C_MAX, _UTM_C_MAX),
     eMin |-> Pair(_UTM_C_MIN, _UTM_C_MIN),
     nMax |-> Pair(_UTM_N_MAX, _UTM_N_MAX + _UTM_N_SHIFT),
     nMin |-> Pair(_UTM_S_MIN - _UTM_N_SHIFT, _UTM_S_MIN)]

---------------------------------------------------------------------------
(* utmupsValidate *)

IsObject(coord) == coord.shape \in {"Utm", "Ups"}

IsTuple(coord) == coord.shape \in {"UtmUps5Tuple", "UtmUps8Tuple"}

(* _en with the bounds exclusive. *)
_en_exclusive(en, lo, hi, ename, U, Error) ==
    IF en.num /\ lo < en.v /\ en.v < hi
    THEN Return("None", <<>>)
    ELSE Result("raise", Error, <<en>>, ename, "outside range", U, lo, hi)

(* _en: None when lo <= float(en) <= hi, else Error(ename, en, txt=...). *)
_en(en, lo, hi, ename, U, Error) ==
    IF en.num /\ lo <= en.v /\ en.v <= hi
    THEN Return("None", <<>>)
    ELSE Result("raise", Error, <<en>>, ename, "outside range", U, lo, hi)

(* The falsed argument, whatever the coordinate is. *)
enMM_argument(coord, falsed) == falsed

(* The falsed flag in effect: the object's own, or the argument. *)
enMM(coord, falsed) == IF IsObject(coord) THEN coord.falsed ELSE falsed

(* The table family (M, u._Bands) of a normalized zone. *)
Family(z) == IF z = _UPS_ZONE THEN "UPS" ELSE "UTM"

MinMax(z) == IF z = _UPS_ZONE THEN _UpsMinMax ELSE _UtmMinMax

Bands(z) == IF z = _UPS_ZONE THEN ups_Bands ELSE utm_Bands

(* U: the grid the messages name. *)
Uname(z, MGRS) == IF MGRS THEN "MGRS" ELSE Family(z)

(* s: the widening of all four bounds. *)
Widen(MGRS) == IF MGRS THEN _MGRS_TILE ELSE 0

(* The check with the band looked up in both alphabets. *)
TripleBad_anyBand(z, B, h) ==
    \/ _NS_find(h) < 0
    \/ z < _UTMUPS_ZONE_MIN
    \/ z > _UTMUPS_ZONE_MAX
    \/ B \notin (ups_Bands \cup utm_Bands)

(* The zone, band and hemisphere check of lines 239-244. *)
TripleBad(z, B, h) ==
    \/ _NS_find(h) < 0
    \/ z < _UTMUPS_ZONE_MIN
    \/ z > _UTMUPS_ZONE_MAX
    \/ B \notin Bands(z)

(* The checks with only the maxima widened. *)
CheckEN_maxOnly(coord, z, i, s, U, Error) ==
    LET M == MinMax(z)
        re == _en(coord.easting, M.eMin[i], M.eMax[i] + s, "easting", U, Error)
    IN  IF re.out = "raise"
        THEN re
        ELSE _en(coord.northing, M.nMin[i], M.nMax[i] + s, "northing", U, Error)

(* The easting check, then the northing check, of lines 246-248. *)
CheckEN(coord, z, i, s, U, Error) ==
    LET M == MinMax(z)
        re == _en(coord.easting, M.eMin[i] - s, M.eMax[i] + s, "easting", U, Error)
    IN  IF re.out = "raise"
        THEN re
        ELSE _en(coord.northing, M.nMin[i] - s, M.nMax[i] + s, "northing", U, Error)

utmupsValidate(coord, falsed, MGRS, Error) ==
    IF ~(IsObject(coord) \/ IsTuple(coord))
    THEN Raise(Error, <<coord>>, "coord", "not Utm, Ups, UtmUps5Tuple or UtmUps8Tuple")
    ELSE LET t == _to3zBhp(coord.zone, coord.band, coord.hemi)
         IN  IF t.raised
             THEN Raise(t.cls, <<coord.zone>>, "zone", "invalid")
             ELSE IF TripleBad(t.z, t.B, t.h)
                  THEN Raise(Error, <<t.z, t.B, t.h>>, "coord", "zone band hemisphere")
                  ELSE IF enMM(coord, falsed)
                       THEN CheckEN(coord, t.z, _NS_find(t.h), Widen(MGRS),
                                    Uname(t.z, MGRS), Error)
                       ELSE Return("None", <<>>)

(* utmupsValidateOK: ok, or the UTMUPSError caught; any other error is not *)
(* caught.                                                                 *)
utmupsValidateOK(coord, falsed) ==
    LET r == utmupsValidate(coord, falsed, FALSE, "UTMUPSError")
    IN  IF r.out = "raise"
        THEN IF r.cls = "UTMUPSError" THEN [r EXCEPT !.out = "return"] ELSE r
        ELSE Return("ok", <<>>)

---------------------------------------------------------------------------
(* utmupsZoneBand5 and its two collaborators *)

_UTM_LAT_MIN == -80

_UTM_LAT_MAX == 84

_UTM_ZONES == 60

_UTM_ZONE_WIDTH == 6

_UTM_BAND_HEIGHT == 8

LatLimit == 90

LonLimit == 180

Clip(x, limit) == IF x > limit THEN limit ELSE IF x < 0 - limit THEN 0 - limit ELSE x

(* The latitude and longitude both classifiers start from: a value that is *)
(* no number is a ValueError; an angle outside [-90, 90] or [-180, 180] is *)
(* a RangeError when rangerrors is set and is clipped when it is not.      *)
LatLon(lat, lon, rangerrors) ==
    IF ~lat.num \/ ~lon.num
    THEN Raise("ValueError", <<lat, lon>>, IF lat.num THEN "lon" ELSE "lat", "invalid")
    ELSE IF rangerrors /\ (Clip(lat.v, LatLimit) # lat.v \/ Clip(lon.v, LonLimit) # lon.v)
         THEN Raise("RangeError", <<lat, lon>>,
                    IF Clip(lat.v, LatLimit) # lat.v THEN "lat" ELSE "lon",
                    "outside valid range")
         ELSE Return("LatLon", <<Clip(lat.v, LatLimit), Clip(lon.v, LonLimit)>>)

utm_BandLetters ==
    <<"C", "D", "E", "F", "G", "H", "J", "K", "L", "M",
      "N", "P", "Q", "R", "S", "T", "U", "V", "W", "X", "X">>

utm_Zone(lon) == (((lon + LonLimit) \div _UTM_ZONE_WIDTH) % _UTM_ZONES) + 1

utm_CentralMeridian(z) == (z * _UTM_ZONE_WIDTH) - LonLimit - (_UTM_ZONE_WIDTH \div 2)

(* utm.utmZoneBand5: a RangeError when the latitude is outside the UTM     *)
(* bands, [-80, 84).                                                       *)
utmZoneBand5(lat, lon, cmoff, rangerrors) ==
    LET ll == LatLon(lat, lon, rangerrors)
    IN  IF ll.out = "raise"
        THEN ll
        ELSE LET a == ll.val[1]
                 b == ll.val[2]
                 z == utm_Zone(b)
             IN  IF _UTM_LAT_MIN <= a /\ a < _UTM_LAT_MAX
                 THEN Return("UtmUpsLatLon5Tuple",
                             <<z, utm_BandLetters[(a - _UTM_LAT_MIN) \div _UTM_BAND_HEIGHT + 1],
                               IF a < 0 THEN "S" ELSE "N", a,
                               IF cmoff THEN b - utm_CentralMeridian(z) ELSE b>>)
                 ELSE Raise("RangeError", <<lat, lon>>, "lat", "outside UTM")

(* ups.upsZoneBand5: the pole and polar band of any latitude. *)
upsZoneBand5(lat, lon, rangerrors) ==
    LET ll == LatLon(lat, lon, rangerrors)
    IN  IF ll.out = "raise"
        THEN ll
        ELSE LET a == ll.val[1]
                 b == ll.val[2]
             IN  Return("UtmUpsLatLon5Tuple",
                        <<_UPS_ZONE,
                          IF a < 0 THEN (IF b < 0 THEN "A" ELSE "B")
                                   ELSE (IF b < 0 THEN "Y" ELSE "Z"),
                          IF a < 0 THEN "S" ELSE "N", a, b>>)

(* utmupsZoneBand5 falling back on any error. *)
utmupsZoneBand5_anyError(lat, lon, cmoff, rangerrors) ==
    LET u == utmZoneBand5(lat, lon, cmoff, rangerrors)
    IN  IF u.out = "raise"
        THEN [ret |-> upsZoneBand5(lat, lon, rangerrors),
              calls |-> <<"utmZoneBand5", "upsZoneBand5">>]
        ELSE [ret |-> u, calls |-> <<"utmZoneBand5">>]

(* utmupsZoneBand5 without the fallback. *)
utmupsZoneBand5_noFallback(lat, lon, cmoff, rangerrors) ==
    [ret |-> utmZoneBand5(lat, lon, cmoff, rangerrors), calls |-> <<"utmZoneBand5">>]

(* utmupsZoneBand5: [ret, calls], what it hands back and the classifiers   *)
(* it called, in order.                                                    *)
utmupsZoneBand5(lat, lon, cmoff, rangerrors) ==
    LET u == utmZoneBand5(lat, lon, cmoff, rangerrors)
    IN  IF u.out = "raise" /\ u.cls = "RangeError"
        THEN [ret |-> upsZoneBand5(lat, lon, rangerrors),
              calls |-> <<"utmZoneBand5", "upsZoneBand5">>]
        ELSE [ret |-> u, calls |-> <<"utmZoneBand5">>]

---------------------------------------------------------------------------
(* parseUTMUPS5 and its two collaborators.  A string is the record of its  *)
(* tokens, "zone[band] hemisphere/pole easting northing".                  *)

StrTokensOK(s) == s.zone.num /\ s.easting.num /\ s.northing.num /\ s.hemi \in {"N", "S"}

(* utm.parseUTM5: the Utm of the string, or a UTMError. *)
parseUTM5(s) ==
    IF StrTokensOK(s) /\ s.zone.v >= 1 /\ s.zone.v <= _UTM_ZONES /\ s.band \in utm_Bands
    THEN Return("Utm", <<s.zone.v, s.hemi, s.easting.v, s.northing.v, s.band>>)
    ELSE Raise("UTMError", <<s>>, "strUTM", "no UTM")

(* ups.parseUPS5: the Ups of the string, or a UPSError. *)
parseUPS5(s) ==
    IF StrTokensOK(s) /\ s.zone.v = _UPS_ZONE /\ s.band \in ups_Bands
    THEN Return("Ups", <<s.zone.v, s.hemi, s.easting.v, s.northing.v, s.band>>)
    ELSE Raise("UPSError", <<s>>, "strUPS", "no UPS")

(* The except clause of line 100. *)
Unified(x, s) ==
    IF x.out = "raise" /\ x.cls \in {"UTMError", "UPSError"}
    THEN Raise("UTMUPSError", <<s>>, "strUTMUPS", x.txt)
    ELSE x

(* parseUTMUPS5 with the inner except clause catching nothing, so that a   *)
(* UTMError goes straight to the outer clause.                             *)
parseUTMUPS5_noInner(s) ==
    [ret |-> Unified(parseUTM5(s), s), calls |-> <<"parseUTM5">>]

(* parseUTMUPS5: [ret, calls]. *)
parseUTMUPS5(s) ==
    LET u == parseUTM5(s)
    IN  IF u.out = "raise" /\ u.cls = "UTMError"
        THEN [ret |-> Unified(parseUPS5(s), s), calls |-> <<"parseUTM5", "parseUPS5">>]
        ELSE [ret |-> Unified(u, s), calls |-> <<"parseUTM5">>]

---------------------------------------------------------------------------
(* UtmUps and the two classes it builds *)

(* utm.Utm(z, hp, easting, northing, band=B, falsed=falsed): the object,   *)
(* or a UTMError for a zone or a band that is not UTM's.                   *)
Utm(z, hp, easting, northing, B, falsed) ==
    IF z >= 1 /\ z <= _UTM_ZONES /\ B \in utm_Bands /\ hp \in {"N", "S"}
    THEN Return("Utm", <<[shape |-> "Utm", zone |-> Num(z), band |-> B, hemi |-> hp,
                          easting |-> easting, northing |-> northing,
                          falsed |-> falsed]>>)
    ELSE Raise("UTMError", <<z, B, hp>>, "zone", "invalid")

(* ups.Ups(z, hp, easting, northing, band=B, falsed=falsed): the object,   *)
(* or a UPSError for a zone or a band that is not UPS's.                   *)
Ups(z, hp, easting, northing, B, falsed) ==
    IF z = _UPS_ZONE /\ B \in ups_Bands /\ hp \in {"N", "S"}
    THEN Return("Ups", <<[shape |-> "Ups", zone |-> Num(z), band |-> B, hemi |-> hp,
                          easting |-> easting, northing |-> northing,
                          falsed |-> falsed]>>)
    ELSE Raise("UPSError", <<z, B, hp>>, "zone", "invalid")

(* U with the zone compared to the string form "00" only, which a zone     *)
(* normalized to a number never equals.                                    *)
UtmUps_U_strOnly(z) == "Utm"

(* U = Ups if z in (_UPS_ZONE, _UPS_ZONE_STR) else Utm.  The normalized    *)
(* zone is a number: it equals the string form _UPS_ZONE_STR never.        *)
UtmUps_U(z) == IF z \in {_UPS_ZONE} THEN "Ups" ELSE "Utm"

UtmUps(zone, hemipole, easting, northing, band, falsed) ==
    LET t == _to3zBhp(zone, band, hemipole)
    IN  IF t.raised
        THEN Raise(t.cls, <<zone>>, "zone", "invalid")
        ELSE IF UtmUps_U(t.z) = "Ups"
             THEN Ups(t.z, t.h, easting, northing, t.B, falsed)
             ELSE Utm(t.z, t.h, easting, northing, t.B, falsed)

(* The eastings or northings the projection of the classified point gives: *)
(* falsed, inside the bounds [lo, hi] of the row of its family and         *)
(* hemisphere/pole; not falsed, an offset of either sign.                  *)
Projected(lo, hi, falsed) ==
    IF falsed
    THEN {Num(lo), Num((lo + hi) \div 2), Num(hi)}
    ELSE {Num(0 - hi), Num(0), Num(hi)}

---------------------------------------------------------------------------
(* The inputs drawn *)

Around(b) == {b + d : d \in (0 - Slack)..Slack}

Zones == {Num(z) : z \in Around(_UTMUPS_ZONE_MIN) \cup Around(_UTMUPS_ZONE_MAX)}
             \cup {NonNum}

BandLetters == {"A", "B", "Y", "Z", "C", "X"}

HemiLetters == {"N", "S", "E"}

Shapes == {"Utm", "UtmUps5Tuple", "pair"}

(* The row of the range tables a zone and a hemisphere letter select, when *)
(* they select one.                                                        *)
HasRow(zone, hemi) ==
    /\ zone.num
    /\ zone.v >= _UTMUPS_ZONE_MIN
    /\ zone.v <= _UTMUPS_ZONE_MAX
    /\ hemi \in {"N", "S"}

(* Eastings or northings around the bounds [lo, hi] of a row and around    *)
(* the bounds widened by a tile, around zero, and inside the row.          *)
EnAround(lo, hi) ==
    {Num(v) : v \in Around(lo - _MGRS_TILE) \cup Around(lo) \cup Around(hi)
                      \cup Around(hi + _MGRS_TILE) \cup Around(0)
                      \cup {(lo + hi) \div 2}}
        \cup {NonNum}

(* Eastings or northings of a coordinate that selects no row. *)
EnPlain == {Num(0 - _MGRS_TILE), Num(5 * _MGRS_TILE), NonNum}

Eastings(zone, hemi) ==
    IF HasRow(zone, hemi)
    THEN EnAround(MinMax(zone.v).eMin[_NS_find(hemi)], MinMax(zone.v).eMax[_NS_find(hemi)])
    ELSE EnPlain

Northings(zone, hemi) ==
    IF HasRow(zone, hemi)
    THEN EnAround(MinMax(zone.v).nMin[_NS_find(hemi)], MinMax(zone.v).nMax[_NS_find(hemi)])
    ELSE EnPlain

Coord(shape, zone, band, hemi, e, n, f) ==
    [shape |-> shape, zone |-> zone, band |-> band, hemi |-> hemi,
     easting |-> e, northing |-> n, falsed |-> f]

(* A tuple has no falsed attribute: FALSE stands for its absence.  A shape  *)
(* that is neither an object nor a tuple has no field that is read.        *)
Drawn(sh, z, B, h, e, n, f) ==
    /\ IsObject([shape |-> sh]) \/ ~f
    /\ sh = "pair" => (z = NonNum /\ B = "A" /\ h = "N" /\ e = NonNum /\ n = NonNum)

Lats ==
    {Num(a) : a \in Around(0 - LatLimit) \cup Around(_UTM_LAT_MIN) \cup Around(0)
                      \cup Around(_UTM_LAT_MAX) \cup Around(LatLimit)}
        \cup {NonNum}

Lons ==
    {Num(b) : b \in Around(0 - LonLimit) \cup Around(0) \cup Around(LonLimit)}
        \cup {NonNum}

Strings ==
    {Coord("str", z, B, h, e, n, FALSE) :
        z \in Zones, B \in BandLetters, h \in HemiLetters,
        e \in {Num(_UTM_C_MIN), NonNum}, n \in {Num(_UTM_S_MIN), NonNum}}

---------------------------------------------------------------------------
(* The caller *)

Init ==
    /\ pc = "idle"
    /\ op = "none"
    /\ arg = <<>>
    /\ ret = NoResult
    /\ calls = <<>>

Validate ==
    /\ pc = "idle"
    /\ \E sh \in Shapes, z \in Zones, B \in BandLetters, h \in HemiLetters,
          f \in BOOLEAN, falsed \in BOOLEAN, MGRS \in BOOLEAN :
       \E e \in Eastings(z, h), n \in Northings(z, h) :
          /\ Drawn(sh, z, B, h, e, n, f)
          /\ arg' = [coord |-> Coord(sh, z, B, h, e, n, f), falsed |-> falsed,
                     MGRS |-> MGRS]
          /\ ret' = utmupsValidate(arg'.coord, falsed, MGRS, "UTMUPSError")
    /\ op' = "utmupsValidate"
    /\ calls' = <<>>
    /\ pc' = "done"

ValidateOK ==
    /\ pc = "idle"
    /\ \E sh \in Shapes, z \in Zones, B \in BandLetters, h \in HemiLetters,
          f \in BOOLEAN, falsed \in BOOLEAN :
       \E e \in Eastings(z, h), n \in Northings(z, h) :
          /\ Drawn(sh, z, B, h, e, n, f)
          /\ arg' = [coord |-> Coord(sh, z, B, h, e, n, f), falsed |-> falsed,
                     MGRS |-> FALSE]
          /\ ret' = utmupsValidateOK(arg'.coord, falsed)
    /\ op' = "utmupsValidateOK"
    /\ calls' = <<>>
    /\ pc' = "done"

ZoneBand5 ==
    /\ pc = "idle"
    /\ \E lat \in Lats, lon \in Lons, cmoff \in BOOLEAN, rangerrors \in BOOLEAN :
          /\ arg' = [lat |-> lat, lon |-> lon, cmoff |-> cmoff,
                     rangerrors |-> rangerrors]
          /\ ret' = utmupsZoneBand5(lat, lon, cmoff, rangerrors).ret
          /\ calls' = utmupsZoneBand5(lat, lon, cmoff, rangerrors).calls
    /\ op' = "utmupsZoneBand5"
    /\ pc' = "done"

Parse ==
    /\ pc = "idle"
    /\ \E s \in Strings :
          /\ arg' = [strUTMUPS |-> s]
          /\ ret' = parseUTMUPS5(s).ret
          /\ calls' = parseUTMUPS5(s).calls
    /\ op' = "parseUTMUPS5"
    /\ pc' = "done"

(* The round trip: the coordinate built from a classification ... *)
BuildUtmUps ==
    /\ pc = "done"
    /\ op = "utmupsZoneBand5"
    /\ ret.out = "return"
    /\ \E falsed \in BOOLEAN :
       LET z == ret.val[1]
           B == ret.val[2]
           hp == ret.val[3]
           M == MinMax(z)
           i == _NS_find(hp)
       IN  \E e \in Projected(M.eMin[i], M.eMax[i], falsed),
              n \in Projected(M.nMin[i], M.nMax[i], falsed) :
              /\ arg' = [zone |-> Num(z), hemipole |-> hp, easting |-> e,
                         northing |-> n, band |-> B, falsed |-> falsed]
              /\ ret' = UtmUps(Num(z), hp, e, n, B, falsed)
    /\ op' = "UtmUps"
    /\ calls' = Append(calls, "UtmUps")
    /\ pc' = "done"

(* ... and that coordinate validated. *)
ValidateBuilt ==
    /\ pc = "done"
    /\ op = "UtmUps"
    /\ ret.out = "return"
    /\ \E falsed \in BOOLEAN, MGRS \in BOOLEAN :
          /\ arg' = [coord |-> ret.val[1], falsed |-> falsed, MGRS |-> MGRS]
          /\ ret' = utmupsValidate(ret.val[1], falsed, MGRS, "UTMUPSError")
    /\ op' = "utmupsValidate"
    /\ calls' = Append(calls, "utmupsValidate")
    /\ pc' = "done"

Next == Validate \/ ValidateOK \/ ZoneBand5 \/ Parse \/ BuildUtmUps \/ ValidateBuilt

Spec == Init /\ [][Next]_vars

---------------------------------------------------------------------------
(* What the properties speak of *)

Called(o) == pc = "done" /\ op = o

Passed == ret.out = "return" /\ ret.cls = "None"

RangeErrorOn(field) ==
    /\ ret.out = "raise"
    /\ ret.cls = "UTMUPSError"
    /\ ret.name = field
    /\ ret.txt = "outside range"

(* A coordinate object or tuple whose zone, band and hemisphere agree. *)
IsUps(c) == c.zone.num /\ c.zone.v = 0 /\ c.band \in {"A", "B", "Y", "Z"}

IsUtm(c) ==
    /\ c.zone.num /\ c.zone.v >= 1 /\ c.zone.v <= 60
    /\ c.band \in {"C", "D", "E", "F", "G", "H", "J", "K", "L", "M",
                   "N", "P", "Q", "R", "S", "T", "U", "V", "W", "X"}

Consistent(c) ==
    /\ c.shape \in {"Utm", "Ups", "UtmUps5Tuple", "UtmUps8Tuple"}
    /\ c.hemi \in {"N", "S"}
    /\ IsUps(c) \/ IsUtm(c)

(* The falsed flag in effect of a call of utmupsValidate[OK]. *)
FalsedInEffect ==
    IF arg.coord.shape \in {"Utm", "Ups"} THEN arg.coord.falsed ELSE arg.falsed

(* The row of the tables the coordinate of the call selects. *)
ArgRow == [M |-> IF IsUps(arg.coord) THEN _UpsMinMax ELSE _UtmMinMax,
           i |-> IF arg.coord.hemi = "N" THEN 0 ELSE 1]

Within(en, lo, hi) == en.num /\ lo <= en.v /\ en.v <= hi

Tiles(k) == k * 100000

---------------------------------------------------------------------------
(* C1: in each of the four rows, for a consistent coordinate validated as  *)
(* falsed (without MGRS widening): an easting or northing exactly at the   *)
(* row's minimum or maximum is accepted (the other one being in range),    *)
(* and one unit below the minimum or above the maximum is rejected with a  *)
(* range error that names the offending field.                             *)
C1_BoundsInclusive ==
    (Called("utmupsValidate") /\ Consistent(arg.coord) /\ FalsedInEffect /\ ~arg.MGRS) =>
        LET M == ArgRow.M
            i == ArgRow.i
            e == arg.coord.easting
            n == arg.coord.northing
            eIn == Within(e, M.eMin[i], M.eMax[i])
            nIn == Within(n, M.nMin[i], M.nMax[i])
        IN  /\ (e.num /\ e.v \in {M.eMin[i], M.eMax[i]} /\ nIn) => Passed
            /\ (n.num /\ n.v \in {M.nMin[i], M.nMax[i]} /\ eIn) => Passed
            /\ (e.num /\ e.v \in {M.eMin[i] - 1, M.eMax[i] + 1}) => RangeErrorOn("easting")
            /\ (n.num /\ n.v \in {M.nMin[i] - 1, M.nMax[i] + 1} /\ eIn)
                   => RangeErrorOn("northing")

(* C1 witness: UPS-South, easting in range, northing 3,200,001: a northing *)
(* range error.                                                            *)
C1_Witness ==
    /\ Called("utmupsValidate") /\ Consistent(arg.coord) /\ FalsedInEffect /\ ~arg.MGRS
    /\ IsUps(arg.coord) /\ arg.coord.hemi = "S"
    /\ arg.coord.easting = Num(Tiles(20))
    /\ arg.coord.northing = Num(Tiles(32) + 1)
    /\ RangeErrorOn("northing")

(* C2 as stated: a falsed UTM-North coordinate is accepted if and only if  *)
(* 100,000 <= easting <= 900,000 and 0 <= northing <= 9,500,000.           *)
C2_AsStated ==
    (/\ Called("utmupsValidate") /\ Consistent(arg.coord) /\ FalsedInEffect /\ ~arg.MGRS
     /\ IsUtm(arg.coord) /\ arg.coord.hemi = "N") =>
        (Passed <=> /\ Within(arg.coord.easting, Tiles(1), Tiles(9))
                    /\ Within(arg.coord.northing, Tiles(0), Tiles(95)))

(* C2, amended: the UTM table bounds easting to [1, 9] tiles in both       *)
(* hemispheres and northing to [-90, 95] tiles in the Northern one: a      *)
(* falsed UTM-North coordinate is accepted if and only if 100,000 <=       *)
(* easting <= 900,000 and -9,000,000 <= northing <= 9,500,000.             *)
C2_UtmNorthRange ==
    (/\ Called("utmupsValidate") /\ Consistent(arg.coord) /\ FalsedInEffect /\ ~arg.MGRS
     /\ IsUtm(arg.coord)) =>
        /\ arg.coord.hemi = "N" =>
               (Passed <=> /\ Within(arg.coord.easting, Tiles(1), Tiles(9))
                           /\ Within(arg.coord.northing, Tiles(0 - 90), Tiles(95)))
        /\ Passed => Within(arg.coord.easting, Tiles(1), Tiles(9))
        /\ ~Within(arg.coord.easting, Tiles(1), Tiles(9)) => RangeErrorOn("easting")

(* C2 witness: a UTM-North coordinate with a negative northing, accepted. *)
C2_Witness ==
    /\ Called("utmupsValidate") /\ Consistent(arg.coord) /\ FalsedInEffect /\ ~arg.MGRS
    /\ IsUtm(arg.coord) /\ arg.coord.hemi = "N"
    /\ arg.coord.easting = Num(Tiles(1))
    /\ arg.coord.northing = Num(0 - 1)
    /\ Passed

(* The same call with the coordinate moved to the Northern hemisphere and  *)
(* its northing lowered by k tiles.                                        *)
NorthTwin(k) ==
    utmupsValidate([arg.coord EXCEPT !.hemi = "N",
                                     !.northing = Num(arg.coord.northing.v - Tiles(k))],
                   arg.falsed, arg.MGRS, "UTMUPSError")

UtmSouthCall ==
    /\ Called("utmupsValidate") /\ Consistent(arg.coord) /\ FalsedInEffect /\ ~arg.MGRS
    /\ IsUtm(arg.coord) /\ arg.coord.hemi = "S" /\ arg.coord.northing.num

(* C3 as stated: the UTM-South northing bounds are the UTM-North ones      *)
(* shifted by 105 tiles, and every northing bound of the UTM table is      *)
(* non-negative: an accepted UTM northing is never negative.               *)
C3_AsStated ==
    /\ UtmSouthCall => (Passed <=> NorthTwin(105).out = "return")
    /\ (/\ Called("utmupsValidate") /\ Consistent(arg.coord) /\ FalsedInEffect
         /\ ~arg.MGRS /\ IsUtm(arg.coord) /\ Passed) => arg.coord.northing.v >= 0

(* C3, amended: the UTM-South northing bounds [10, 195] tiles are the      *)
(* UTM-North bounds [-90, 95] tiles, each shifted by one and the same      *)
(* offset of 100-0 = 100 tiles; the South bounds are positive, the North   *)
(* minimum is negative.                                                    *)
C3_SouthIsNorthShifted ==
    /\ UtmSouthCall =>
           /\ Passed <=> NorthTwin(100).out = "return"
           /\ Passed <=> /\ Within(arg.coord.easting, Tiles(1), Tiles(9))
                          /\ Within(arg.coord.northing, Tiles(10), Tiles(195))
           /\ Passed => arg.coord.northing.v > 0

(* C3 witness: a UTM-South coordinate at the South northing maximum, 195   *)
(* tiles, accepted as its Northern twin at 95 tiles is.                    *)
C3_Witness ==
    /\ UtmSouthCall
    /\ arg.coord.northing = Num(Tiles(195))
    /\ Passed
    /\ NorthTwin(100).out = "return"

(* C4 as stated: utmupsValidateOK never raises; it returns ok when         *)
(* utmupsValidate passes and the caught error otherwise, also when the     *)
(* normalization of zone, band and hemisphere fails and when the input is  *)
(* of a wrong shape.                                                       *)
C4_NeverRaises ==
    Called("utmupsValidateOK") =>
        /\ ret.out = "return"
        /\ ret.cls \in {"ok", "UTMUPSError"}
        /\ ret.cls = "ok" <=>
               utmupsValidate(arg.coord, arg.falsed, FALSE, "UTMUPSError").out = "return"

(* The angles of a call of utmupsZoneBand5. *)
NonNumeric == ~arg.lat.num \/ ~arg.lon.num

OutOfRange ==
    /\ ~NonNumeric
    /\ arg.lat.v < -90 \/ arg.lat.v > 90 \/ arg.lon.v < -180 \/ arg.lon.v > 180

DomainError == NonNumeric \/ (OutOfRange /\ arg.rangerrors)

(* The latitude classified: the given one, clipped to [-90, 90]. *)
LatUsed == IF arg.lat.v > 90 THEN 90 ELSE IF arg.lat.v < -90 THEN -90 ELSE arg.lat.v

InUtmCoverage == -80 <= LatUsed /\ LatUsed < 84

UpsInvoked == \E k \in 1..Len(calls) : calls[k] = "upsZoneBand5"

(* C5 as stated: the UPS classifier is invoked only for a valid latitude   *)
(* outside the UTM bands; on a domain error (a non-numeric angle, or an    *)
(* out-of-range one under strict range checking) it is never invoked and   *)
(* the error reaches the caller as a kind other than the coverage          *)
(* condition's, RangeError.                                                *)
C5_AsStated ==
    Called("utmupsZoneBand5") =>
        /\ UpsInvoked => (~DomainError /\ ~InUtmCoverage)
        /\ DomainError => (ret.out = "raise" /\ ret.cls # "RangeError" /\ ~UpsInvoked)

(* C5, amended: utmupsZoneBand5 falls back to the UPS classifier exactly   *)
(* when the UTM classifier raised a RangeError, which it does for a valid  *)
(* latitude outside the UTM bands and also for an out-of-range angle under *)
(* strict range checking: then the UPS classifier is invoked too and the   *)
(* caller gets a RangeError, the kind of the coverage condition.  Only a   *)
(* non-numeric angle propagates as a distinct kind, ValueError, with the   *)
(* UPS classifier never invoked.                                           *)
C5_FallbackOnRangeError ==
    Called("utmupsZoneBand5") =>
        /\ NonNumeric => (ret.out = "raise" /\ ret.cls = "ValueError" /\ ~UpsInvoked)
        /\ (OutOfRange /\ arg.rangerrors) =>
               (ret.out = "raise" /\ ret.cls = "RangeError" /\ UpsInvoked)
        /\ ~DomainError => (UpsInvoked <=> ~InUtmCoverage)
        /\ UpsInvoked <=>
               LET u == utmZoneBand5(arg.lat, arg.lon, arg.cmoff, arg.rangerrors)
               IN  u.out = "raise" /\ u.cls = "RangeError"

(* C5 witness: latitude 91 under strict range checking: both classifiers   *)
(* are invoked and a RangeError reaches the caller.                        *)
C5_Witness ==
    /\ Called("utmupsZoneBand5")
    /\ arg.lat = Num(91) /\ arg.lon = Num(0) /\ arg.rangerrors
    /\ calls = <<"utmZoneBand5", "upsZoneBand5">>
    /\ ret.out = "raise" /\ ret.cls = "RangeError"

BadTriple ==
    \/ arg.coord.hemi \notin {"N", "S"}
    \/ ~arg.coord.zone.num
    \/ arg.coord.zone.v < 0
    \/ arg.coord.zone.v > 60
    \/ ~(IsUps(arg.coord) \/ IsUtm(arg.coord))

(* C7: utmupsValidate rejects a coordinate object or tuple, whatever its   *)
(* easting, northing, falsed flag and MGRS flag, when its hemisphere is    *)
(* not 'N' or 'S', or its zone is outside 0..60, or its band is not in the *)
(* alphabet of the family its zone selects; the rejection is not a range   *)
(* error of the easting or northing: the triple is checked first.          *)
C7_TripleRejected ==
    (/\ Called("utmupsValidate")
     /\ arg.coord.shape \in {"Utm", "Ups", "UtmUps5Tuple", "UtmUps8Tuple"}
     /\ BadTriple) =>
        /\ ret.out = "raise"
        /\ ret.name \notin {"easting", "northing"}
        /\ arg.coord.zone.num => (ret.cls = "UTMUPSError" /\ ret.name = "coord")

(* C7 witness: the UPS band 'A' with the UTM zone 1 and an easting outside *)
(* every range, validated as falsed: rejected for the triple.              *)
C7_Witness ==
    /\ Called("utmupsValidate")
    /\ arg.coord.shape = "UtmUps5Tuple" /\ arg.falsed
    /\ arg.coord.zone = Num(1) /\ arg.coord.band = "A" /\ arg.coord.hemi = "N"
    /\ arg.coord.easting = Num(Tiles(10) + 1)
    /\ ret.out = "raise" /\ ret.name = "coord"

(* C8: parseUTMUPS5 calls the UTM parser first and the UPS parser only     *)
(* after the UTM parser failed; it returns what the first parser that      *)
(* succeeds returns; a failure reaches the caller as a UTMUPSError with    *)
(* the message of the failure and the string, never as a UTMError or a     *)
(* UPSError.                                                               *)
C8_UtmThenUps ==
    Called("parseUTMUPS5") =>
        LET s == arg.strUTMUPS
            u == parseUTM5(s)
            p == parseUPS5(s)
        IN  /\ calls[1] = "parseUTM5"
            /\ calls = IF u.out = "raise" THEN <<"parseUTM5", "parseUPS5">>
                                          ELSE <<"parseUTM5">>
            /\ u.out = "return" => ret = u
            /\ (u.out = "raise" /\ p.out = "return") => ret = p
            /\ (u.out = "raise" /\ p.out = "raise") =>
                   /\ ret.out = "raise"
                   /\ ret.cls = "UTMUPSError"
                   /\ ret.txt = p.txt
                   /\ ret.val = <<s>>
            /\ ret.cls \notin {"UTMError", "UPSError"}

(* C8 witness: a string neither parser accepts: both were called, in that  *)
(* order, and a UTMUPSError came back.                                     *)
C8_Witness ==
    /\ Called("parseUTMUPS5")
    /\ calls = <<"parseUTM5", "parseUPS5">>
    /\ ret.out = "raise" /\ ret.cls = "UTMUPSError"

(* C9: when the falsed flag in effect is false (the argument for a tuple,  *)
(* the object's own attribute for an object) and zone, band and hemisphere *)
(* agree, utmupsValidate checks no bound and passes for every easting and  *)
(* northing.                                                               *)
C9_UnfalsedPasses ==
    (Called("utmupsValidate") /\ Consistent(arg.coord) /\ ~FalsedInEffect) => Passed

(* C9 witness: an object that is not falsed, validated with the falsed     *)
(* argument true and an easting that is no number: passes.                 *)
C9_Witness ==
    /\ Called("utmupsValidate") /\ Consistent(arg.coord)
    /\ arg.coord.shape = "Utm" /\ ~arg.coord.falsed /\ arg.falsed
    /\ arg.coord.easting = NonNum
    /\ Passed

(* C10: validated as falsed, a consistent coordinate is accepted exactly   *)
(* when eMin - s <= easting <= eMax + s and nMin - s <= northing <=        *)
(* nMax + s of its row, s being one tile (100,000 m) with MGRS and 0       *)
(* without; so what is accepted without MGRS is accepted with MGRS.        *)
C10_MgrsWidensByOneTile ==
    (Called("utmupsValidate") /\ Consistent(arg.coord) /\ FalsedInEffect) =>
        LET M == ArgRow.M
            i == ArgRow.i
            s == IF arg.MGRS THEN 100000 ELSE 0
        IN  /\ Passed <=>
                   /\ Within(arg.coord.easting, M.eMin[i] - s, M.eMax[i] + s)
                   /\ Within(arg.coord.northing, M.nMin[i] - s, M.nMax[i] + s)
            /\ (~arg.MGRS /\ Passed) =>
                   utmupsValidate(arg.coord, arg.falsed, TRUE, "UTMUPSError").out = "return"

(* C10 witness: with MGRS, an easting one tile below the row's minimum and *)
(* a northing one tile above the row's maximum: accepted.                  *)
C10_Witness ==
    /\ Called("utmupsValidate") /\ Consistent(arg.coord) /\ FalsedInEffect /\ arg.MGRS
    /\ arg.coord.easting = Num(ArgRow.M.eMin[ArgRow.i] - 100000)
    /\ arg.coord.northing = Num(ArgRow.M.nMax[ArgRow.i] + 100000)
    /\ Passed

(* A coordinate built from a classification and then validated. *)
RoundTripValidated == Called("utmupsValidate") /\ calls # <<>>

(* C11: a coordinate built by UtmUps from the zone, band and               *)
(* hemisphere/pole utmupsZoneBand5 classified, with the easting and        *)
(* northing of the projection, is of the family the classifier chose (Ups  *)
(* exactly when the zone is 0, else Utm) and utmupsValidate passes on it:  *)
(* the classified zone is in 0..60, the band in the alphabet of that       *)
(* family and the hemisphere/pole 'N' or 'S'.                              *)
C11_RoundTrip ==
    /\ Called("UtmUps") =>
           /\ ret.out = "return"
           /\ ret.cls = IF arg.zone.v = 0 THEN "Ups" ELSE "Utm"
           /\ ret.cls = "Ups" <=> UpsInvoked
           /\ arg.zone.v >= 0 /\ arg.zone.v <= 60
           /\ arg.hemipole \in {"N", "S"}
           /\ IF arg.zone.v = 0
              THEN arg.band \in {"A", "B", "Y", "Z"}
              ELSE arg.band \in {"C", "D", "E", "F", "G", "H", "J", "K", "L", "M",
                                 "N", "P", "Q", "R", "S", "T", "U", "V", "W", "X"}
    /\ RoundTripValidated =>
           /\ Passed
           /\ arg.coord.shape = IF arg.coord.zone.v = 0 THEN "Ups" ELSE "Utm"
           /\ arg.coord.shape = "Ups" <=> UpsInvoked

(* C11 witness: a point the classifier gave to UPS, built as a falsed Ups  *)
(* and validated: passes.                                                  *)
C11_Witness ==
    /\ RoundTripValidated
    /\ calls = <<"utmZoneBand5", "upsZoneBand5", "UtmUps", "utmupsValidate">>
    /\ arg.coord.shape = "Ups" /\ arg.coord.falsed /\ ~arg.MGRS
    /\ arg.coord.zone = Num(0)
    /\ Passed

====
